---- MODULE Spec2Model ----
(***************************************************************************)
(* Model of postgres_setup.py: the readiness poller (wait_for_postgres),   *)
(* the container lifecycle (remove_container, start_postgres_container,    *)
(* configure_extensions, create_extensions, verify_extensions,             *)
(* test_extensions) and the command dispatch of main().                    *)
(*                                                                         *)
(* Every external command (run_command -> subprocess.run) is one step      *)
(* whose outcome is chosen by the environment:                             *)
(*   "ok"       exit status 0                                              *)
(*   "nonzero"  non-zero exit status (CalledProcessError when check=True)  *)
(*   "oserror"  subprocess.run raises something that is not a              *)
(*              CalledProcessError (FileNotFoundError, PermissionError,    *)
(*              UnicodeDecodeError of the captured output, ...)            *)
(***************************************************************************)
EXTENDS Integers, Sequences, FiniteSets, TLC

\* ------------------------------------------------------------- bounds

\* Largest max_attempts argument tried in a direct call of wait_for_postgres.
MaxAttemptsArg == 4

\* Most lines of "docker buildx ls" / "docker ps" output that name the builder.
MaxListed == 2

\* Longest build / runtime dependency list of a manifest.
MaxDeps == 2

\* Most extensions of a manifest.
MaxExts == 2

\* Number of start runs that share one container runtime.
NumRuns == 2

\* ---------------------------------------------------------- constants

\* Default of wait_for_postgres's max_attempts parameter.
DefaultMaxAttempts == 30

\* Default of wait_for_postgres's container_name parameter.
DefaultContainer == "postgres-extensions"

\* A container name other than the default, given with --container-name.
CustomContainer == "pg-custom"

ContainerNames == {DefaultContainer, CustomContainer}

\* The choices of the positional command (None when it is omitted).
Commands == {"start", "remove", "build", "generate", "verify", "test", "full-setup"}

\* Entry points: main() with a command, or a direct call of wait_for_postgres.
DirectPoll == "call:wait_for_postgres"

\* Outcomes of one subprocess.run.
Outcomes == {"ok", "nonzero", "oserror"}

\* The phases of a start / full-setup run, in the order main() goes through them.
PhaseOrder ==
    << "Teardown", "Provisioned", "WaitingReady1", "Configured", "Restarting",
       "WaitingReady2", "Bootstrapped", "Verified", "Tested", "Done" >>

Phases == {PhaseOrder[i] : i \in 1..Len(PhaseOrder)}

PhaseIndex(p) == CHOOSE i \in 1..Len(PhaseOrder) : PhaseOrder[i] = p

\* Kinds of external call, and the phase of a start / full-setup run each belongs to.
PhaseOf ==
    [ rc_inspect      |-> "Teardown",
      rc_getvol       |-> "Teardown",
      rc_rm           |-> "Teardown",
      rc_volexists    |-> "Teardown",
      rc_volrm        |-> "Teardown",
      port_check      |-> "Provisioned",
      docker_run      |-> "Provisioned",
      probe1          |-> "WaitingReady1",
      psql_version    |-> "Configured",
      symlink         |-> "Configured",
      append_spl      |-> "Configured",
      append_sp       |-> "Configured",
      restart         |-> "Restarting",
      probe2          |-> "WaitingReady2",
      sql_create      |-> "Bootstrapped",
      verify_running  |-> "Verified",
      verify_query    |-> "Verified",
      test_running    |-> "Tested",
      sql_test        |-> "Tested" ]

CallKinds == DOMAIN PhaseOf

\* ------------------------------- manifests and the generated text

\* Entry point: DockerfileGenerator(config_file).generate_dockerfile() called directly.
DirectGen == "call:DockerfileGenerator"

\* required_fields of validate_config, in the order the loop checks them.
RequiredFields == << "version", "postgres_version", "base_image", "extensions" >>

\* The package names that occur, in lexicographic order. A package is modelled
\* by its rank in this order, so that sorted() is the sort by rank.
PackageNames ==
    << "apt-utils", "bison", "build-essential", "ca-certificates", "cmake", "curl",
       "flex", "git", "gnupg", "libreadline-dev", "postgresql-server-dev-16",
       "zlib1g-dev" >>

Rank(name) == CHOOSE i \in DOMAIN PackageNames : PackageNames[i] = name

\* cleanup_packages of _generate_cleanup, as the source lists them.
CleanupPackages ==
    << Rank("apt-utils"), Rank("bison"), Rank("build-essential"), Rank("cmake"),
       Rank("curl"), Rank("flex"), Rank("git"), Rank("gnupg"), Rank("libreadline-dev"),
       Rank("postgresql-server-dev-16"), Rank("zlib1g-dev") >>

\* The package 'ca-certificates' in ... .get('runtime', []) asks for.
CaCertificates == Rank("ca-certificates")

\* Packages a manifest's global_dependencies.apt lists draw from.
DepPackages == {Rank("build-essential"), CaCertificates, Rank("git")}

\* The keys of architecture_map the generator looks up, and the value of a key
\* the map does not have.
ArchKeys == {"arm64", "amd64"}

Absent == "absent"

\* Asset-name patterns an architecture_map maps to.
Patterns == {"linux-arm64", "linux-amd64"}

\* build.directory values, and which of the words the generator looks for
\* ('age' in directory, 'timescaledb' in directory) occur in each.
Directories == {"/age", "/timescaledb", "/tmp/timescaledb", "/pgvector"}

Contains(word, directory) ==
    CASE word = "age" -> directory = "/age"
      [] word = "timescaledb" -> directory \in {"/timescaledb", "/tmp/timescaledb"}
      [] OTHER -> FALSE

\* Names of the extensions, by position in the manifest's "extensions" mapping
\* (a dict keeps insertion order and its keys are distinct).
ExtNames == << "ext_a", "ext_b", "ext_c", "ext_d" >>

ExtName(i) == ExtNames[i]

\* One extension's configuration. Fields a variant does not read keep a neutral
\* value; architecture_map[k] = Absent stands for a map without the key k.
ExtConfig(type, repo_type, architecture_map, directory, depth, branch) ==
    [type |-> type, repo_type |-> repo_type, architecture_map |-> architecture_map,
     directory |-> directory, depth |-> depth, branch |-> branch]

NoMap == [k \in ArchKeys |-> Absent]

FullMap == [arm64 |-> "linux-arm64", amd64 |-> "linux-amd64"]

PackageConfigs ==
    {ExtConfig("package", "github", m, "none", FALSE, FALSE) :
        m \in [ArchKeys -> Patterns \cup {Absent}]}
    \cup {ExtConfig("package", "gitlab", FullMap, "none", FALSE, FALSE)}

SourceConfigs ==
    {ExtConfig("source", "git", NoMap, d, depth, branch) :
        d \in Directories, depth \in BOOLEAN, branch \in BOOLEAN}
    \cup {ExtConfig("source", "hg", NoMap, "/age", FALSE, FALSE)}

\* A type that is neither 'package' nor 'source'.
OtherConfigs == {ExtConfig("binary", "github", FullMap, "none", FALSE, FALSE)}

ExtConfigs == PackageConfigs \cup SourceConfigs \cup OtherConfigs

\* Sequences over S of length at most n.
SeqsUpTo(S, n) == UNION {[1..k -> S] : k \in 0..n}

\* A manifest that yaml.safe_load returned as a mapping. keys: which required
\* fields it has; gd: "absent" (no global_dependencies), "no_apt"
\* (global_dependencies without apt) or "apt"; apt_keys: which of the lists apt
\* has; build, runtime: the lists, duplicates and order as written; extensions:
\* the extension configurations in the mapping's enumeration order.
Manifest(keys, gd, apt_keys, build, runtime, extensions) ==
    [keys |-> keys, gd |-> gd, apt_keys |-> apt_keys, build |-> build,
     runtime |-> runtime, extensions |-> extensions]

AllFields == {RequiredFields[i] : i \in DOMAIN RequiredFields}

\* A manifest with every required field, both lists and one package extension.
BaseManifest ==
    Manifest(AllFields, "apt", {"build", "runtime"}, << Rank("git") >>,
             << CaCertificates >>,
             << ExtConfig("package", "github", FullMap, "none", FALSE, FALSE) >>)

\* BaseManifest with global_dependencies as g says.
WithoutApt(g) ==
    IF g = "apt" THEN BaseManifest
    ELSE [BaseManifest EXCEPT !.gd = g, !.apt_keys = {}, !.build = << >>,
                              !.runtime = << >>]

\* Manifests that differ in the required fields present and in global_dependencies.
KeyManifests ==
    {[WithoutApt(g) EXCEPT !.keys = ks] :
        ks \in SUBSET AllFields, g \in {"absent", "no_apt", "apt"}}

\* Manifests that differ in the dependency lists.
DepManifests ==
    {[BaseManifest EXCEPT !.apt_keys = ak, !.build = b, !.runtime = r] :
        ak \in SUBSET {"build", "runtime"},
        b \in SeqsUpTo(DepPackages, MaxDeps), r \in SeqsUpTo(DepPackages, MaxDeps)}

\* Manifests that differ in the extensions.
ExtManifests ==
    {[BaseManifest EXCEPT !.extensions = es] : es \in SeqsUpTo(ExtConfigs, MaxExts)}

GenManifests == KeyManifests \cup DepManifests \cup ExtManifests

\* The manifests main() is run with: a complete one, one without a required
\* field, one without global_dependencies, one whose architecture_map lacks a key.
MainManifests ==
    { BaseManifest,
      [BaseManifest EXCEPT !.keys = AllFields \ {"base_image"}],
      WithoutApt("absent"),
      [BaseManifest EXCEPT !.extensions =
          << ExtConfig("package", "github", [FullMap EXCEPT !.arm64 = Absent],
                       "none", FALSE, FALSE) >>] }

\* deps['apt'].get(list_name, [])
AptGet(config, list_name) ==
    IF list_name \in config.apt_keys THEN config[list_name] ELSE << >>

\* validate_config from the i-th required field on: the first field that is not
\* in the mapping ("none": all are there).
RECURSIVE ValidateFrom(_, _)
ValidateFrom(config, i) ==
    IF i > Len(RequiredFields) THEN "none"
    ELSE IF RequiredFields[i] \notin config.keys THEN RequiredFields[i]
    ELSE ValidateFrom(config, i + 1)

\* Mutant of ValidateConfig: reports the last missing field.
ValidateConfig_ReportsLast(config) ==
    LET missing == {i \in DOMAIN RequiredFields : RequiredFields[i] \notin config.keys} IN
    IF missing = {} THEN "none"
    ELSE RequiredFields[CHOOSE i \in missing : \A j \in missing : j <= i]

\* validate_config: the field named by the ValueError it raises, or "none".
ValidateConfig(config) == ValidateFrom(config, 1)

\* sorted(): insertion of x into a sorted sequence, after the elements equal to it.
SortedInsert(x, s) ==
    LET k == Cardinality({i \in 1..Len(s) : s[i] <= x}) IN
    SubSeq(s, 1, k) \o << x >> \o SubSeq(s, k + 1, Len(s))

\* sorted(packages): every element is kept, duplicates included.
RECURSIVE Sorted(_)
Sorted(s) ==
    IF s = << >> THEN << >>
    ELSE SortedInsert(s[Len(s)], Sorted(SubSeq(s, 1, Len(s) - 1)))

\* A block of the generated text. kind: "from", "arg", "apt_install",
\* "update_ca", "install" (one extension: its comment line and body), "cleanup",
\* "cmd". body of an install block: "none" (the comment line only), "package",
\* "age", "timescaledb". arm / other: ARCH_PATTERN in the arm64 branch / the else
\* branch of the emitted test on TARGETARCH. dir: the directory removed and
\* cloned into; cd: the directory the step changes to.
Block(kind) ==
    [kind |-> kind, ext |-> "none", body |-> "none", pkgs |-> << >>, arm |-> "none",
     other |-> "none", dir |-> "none", cd |-> "none", depth |-> FALSE,
     branch |-> FALSE]

\* What a call of the generator gives: the value returned, or the key of the
\* KeyError raised.
Returned(value) == [exc |-> "none", key |-> "none", value |-> value]

KeyError(key) == [exc |-> "KeyError", key |-> key, value |-> << >>]

\* _generate_apt_install
GenerateAptInstall(packages) ==
    IF packages = << >> THEN << >>
    ELSE << [Block("apt_install") EXCEPT !.pkgs = Sorted(packages)] >>

\* Mutant of GeneratePackageInstallation: the two branches take each other's pattern.
GeneratePackageInstallation_Swapped(config) ==
    IF config.repo_type = "github"
      THEN IF config.architecture_map["arm64"] = Absent THEN KeyError("arm64")
           ELSE IF config.architecture_map["amd64"] = Absent THEN KeyError("amd64")
           ELSE Returned([Block("install") EXCEPT
                             !.body = "package",
                             !.arm = config.architecture_map["amd64"],
                             !.other = config.architecture_map["arm64"]])
      ELSE Returned(Block("install"))

\* _generate_package_installation: for a github repository the step, whose
\* f-strings look up architecture_map['arm64'] and then ['amd64']; for any other
\* repository type no line at all.
GeneratePackageInstallation(config) ==
    IF config.repo_type = "github"
      THEN IF config.architecture_map["arm64"] = Absent THEN KeyError("arm64")
           ELSE IF config.architecture_map["amd64"] = Absent THEN KeyError("amd64")
           ELSE Returned([Block("install") EXCEPT
                             !.body = "package",
                             !.arm = config.architecture_map["arm64"],
                             !.other = config.architecture_map["amd64"]])
      ELSE Returned(Block("install"))

\* _generate_source_installation: the AGE recipe, the TimescaleDB recipe (which
\* changes to the literal /timescaledb), or no line at all.
GenerateSourceInstallation(config) ==
    IF config.repo_type = "git" /\ Contains("age", config.directory)
      THEN Returned([Block("install") EXCEPT
                        !.body = "age", !.dir = config.directory,
                        !.cd = config.directory, !.depth = config.depth,
                        !.branch = config.branch])
    ELSE IF config.repo_type = "git" /\ Contains("timescaledb", config.directory)
      THEN Returned([Block("install") EXCEPT
                        !.body = "timescaledb", !.dir = config.directory,
                        !.cd = "/timescaledb", !.depth = config.depth,
                        !.branch = config.branch])
    ELSE Returned(Block("install"))

\* _generate_installation: the comment line "# Install {name}", then the lines
\* of the variant; no line for a type that is neither 'package' nor 'source'.
GenerateInstallation(name, config) ==
    LET r == CASE config.type = "package" -> GeneratePackageInstallation(config)
               [] config.type = "source" -> GenerateSourceInstallation(config)
               [] OTHER -> Returned(Block("install")) IN
    IF r.exc = "none" THEN Returned([r.value EXCEPT !.ext = name]) ELSE r

\* The loop over config['extensions'].items() from the i-th extension on.
RECURSIVE GenerateExtensions(_, _)
GenerateExtensions(config, i) ==
    IF i > Len(config.extensions) THEN Returned(<< >>)
    ELSE LET r == GenerateInstallation(ExtName(i), config.extensions[i]) IN
         IF r.exc # "none" THEN r
         ELSE LET rest == GenerateExtensions(config, i + 1) IN
              IF rest.exc # "none" THEN rest
              ELSE Returned(<< r.value >> \o rest.value)

\* _generate_cleanup
GenerateCleanup == [Block("cleanup") EXCEPT !.pkgs = Sorted(CleanupPackages)]

\* The dependency block of generate_dockerfile (lines 44-52).
GlobalDependencies(config) ==
    IF config.gd = "apt"
      THEN LET build_deps == AptGet(config, "build")
               runtime_deps == AptGet(config, "runtime") IN
           IF build_deps # << >> \/ runtime_deps # << >>
             THEN GenerateAptInstall(build_deps \o runtime_deps)
             ELSE << >>
      ELSE << >>

\* generate_dockerfile: the blocks in the order the lines are appended. The
\* certificate test subscripts config['global_dependencies']['apt'] without a
\* test for either key.
GenerateDockerfile(config) ==
    IF config.gd = "absent" THEN KeyError("global_dependencies")
    ELSE IF config.gd = "no_apt" THEN KeyError("apt")
    ELSE LET exts == GenerateExtensions(config, 1)
             cert == IF \E i \in DOMAIN AptGet(config, "runtime") :
                           AptGet(config, "runtime")[i] = CaCertificates
                       THEN << Block("update_ca") >> ELSE << >> IN
         IF exts.exc # "none" THEN exts
         ELSE Returned(<< Block("from"), Block("arg") >>
                       \o GlobalDependencies(config)
                       \o cert
                       \o exts.value
                       \o << GenerateCleanup, Block("cmd") >>)

\* The architecture test of the emitted package step, run with TARGETARCH = T:
\* if [ "$TARGETARCH" = "arm64" ]; then ARCH_PATTERN=<arm>; else ARCH_PATTERN=<other>; fi
Selector(block, T) == IF T = "arm64" THEN block.arm ELSE block.other

\* The architectures build_image asks a build for: get_system_architecture
\* gives linux/arm64 or linux/amd64.
TargetArchs == {"arm64", "amd64"}

VARIABLES
    cmd,            \* args.command ("none" when omitted), or DirectPoll
    containerName,  \* args.container_name / the container_name argument
    removeVolume,   \* args.remove_volume
    portBound,      \* is the host port bound when start_postgres_container checks it?
    manifest,       \* the content of the configuration file (args.config)
    gen,            \* what the DockerfileGenerator did last
    env,            \* the container runtime's state, when start runs share it
    runs,           \* the start runs that share env: each run's position and locals
    pc,             \* position in the program
    wfp,            \* frame of wait_for_postgres
    rc,             \* frame of remove_container
    sql,            \* frame of the statement loops: [fn, idx]
    bi,             \* frame of build_image / cleanup_buildx, and the Dockerfile
    exitStatus,     \* "running", or the process's exit status "0" / "1" / "2"
    errorMsg,       \* the exception in flight / logged by main's handler
    logged,         \* log lines that matter: completion and "Failed: ..." lines
    calls,          \* number of external calls issued, per kind
    completed,      \* phases that completed successfully
    stmts           \* SQL statements issued so far, in order: <<fn, idx>>

vars == << cmd, containerName, removeVolume, portBound, env, runs, manifest, gen, pc, wfp, rc, sql, bi, exitStatus,
           errorMsg, logged, calls, completed, stmts >>

IsRun == cmd \in {"start", "full-setup"}

\* Phases in which the run has issued an external call.
issued == {PhaseOf[k] : k \in {c \in CallKinds : calls[c] > 0}}

\* attempt, sleeps: probes and sleeps so far; first_ok: the first attempt that
\* succeeded (0: none yet); last: what the loop did last.
NoWfp == [container |-> "none", max_attempts |-> 0, attempt |-> 0, sleeps |-> 0,
          first_ok |-> 0, result |-> "none", caller |-> "none", last |-> "none"]

\* rm_failed: "docker rm -f" was issued and exited non-zero; volume_exists:
\* what does_volume_exist returned.
NoRc == [container_exists |-> FALSE, volume_name |-> "none", remove_volume |-> FALSE,
         rm_failed |-> FALSE, volume_exists |-> FALSE]

NoSql == [fn |-> "none", idx |-> 0]

\* The start runs that share a container runtime.
Procs == 1..NumRuns

\* The shared container runtime, for one container name and one volume name.
\* container: 0, or the run whose "docker run" created the container that has
\* the name; link: plugins/age.so exists in that container's file system;
\* volume: the data volume exists; spl, sp: lines "shared_preload_libraries = ..."
\* and "search_path = ..." in the volume's postgresql.conf.
NoEnv == [container |-> 0, link |-> FALSE, volume |-> FALSE, spl |-> 0, sp |-> 0]

\* One run. pc: "idle", the statement of main it is at, "done" (exit status 0)
\* or "failed" (exit status 1); container_exists: remove_container's local;
\* running: what is_container_running returned last; provisioned, configured:
\* "docker run" succeeded / both lines were appended; overlapped: another run was
\* under way at some time while this one was; failed_at: the statement that raised.
IdleRun == [pc |-> "idle", container_exists |-> FALSE, running |-> FALSE,
            provisioned |-> FALSE, configured |-> FALSE, overlapped |-> FALSE,
            failed_at |-> "none"]

\* stage: "load" (the constructor) or "generate" (generate_dockerfile); result:
\* "ok" or the exception raised; mentions: the names the exception's text has;
\* script: the blocks generate_dockerfile returned.
NoGen == [stage |-> "none", result |-> "none", mentions |-> {}, script |-> << >>]

\* called: build_image has issued a container-runtime call; cleanup_raised: a
\* command of the cleanup_buildx of the finally block raised.
NoBi == [written |-> FALSE, platform |-> "none", in_finally |-> FALSE, left |-> 0,
         created |-> FALSE, built |-> "none", pending |-> "none", cleanups |-> 0,
         called |-> FALSE, cleanup_raised |-> FALSE]

\* Where an exception that no frame catches ends up: main's "except Exception"
\* handler, or the caller of a direct call.
Uncaught == IF cmd \in {DirectPoll, DirectGen} THEN "raised" ELSE "main_except"

Init ==
    /\ cmd \in Commands \cup {"none", DirectPoll}
    /\ containerName \in ContainerNames
    /\ removeVolume \in BOOLEAN
    /\ (cmd # "remove" => removeVolume = FALSE)
    /\ portBound \in BOOLEAN
    /\ (cmd \notin {"start", "full-setup"} => portBound = FALSE)
    /\ manifest \in IF cmd \in {"generate", "build", "full-setup"} THEN MainManifests
                      ELSE {BaseManifest}
    /\ gen = NoGen
    /\ env = NoEnv
    /\ runs = [p \in Procs |-> IdleRun]
    /\ pc = IF cmd = DirectPoll THEN "wfp_entry" ELSE "main"
    /\ wfp \in IF cmd = DirectPoll
                 THEN {[NoWfp EXCEPT !.container = containerName, !.max_attempts = m,
                                     !.caller = "direct"] : m \in 0..MaxAttemptsArg}
                 ELSE {NoWfp}
    /\ rc = NoRc
    /\ sql = NoSql
    /\ bi = NoBi
    /\ exitStatus = "running"
    /\ errorMsg = "none"
    /\ logged = {}
    /\ calls = [k \in CallKinds |-> 0]
    /\ completed = {}
    /\ stmts = << >>

\* One more call of kind k.
Count(k) == calls' = [calls EXCEPT ![k] = @ + 1]

\* ------------------------------------------------------- run_command

\* run_command(command, check): the exception it raises for outcome o, or "none".
\* A CalledProcessError is logged and re-raised; anything else passes through.
RunCommand(o, check) ==
    IF o = "oserror" THEN "OSError"
    ELSE IF o = "nonzero" /\ check THEN "CalledProcessError"
    ELSE "none"

\* ------------------------------------------------- wait_for_postgres

\* Mutant of RangeHasNext: one iteration too many.
RangeHasNext_OffByOne(i, n) == i <= n

\* for attempt in range(max_attempts): is there an iteration left after i of them?
RangeHasNext(i, n) == i < n

\* except subprocess.CalledProcessError:
WfpCatches(exc) == exc = "CalledProcessError"

\* A call wait_for_postgres(container) with the default max_attempts and delay.
WfpCall(container, caller) ==
    wfp' = [NoWfp EXCEPT !.container = container,
                         !.max_attempts = DefaultMaxAttempts,
                         !.caller = caller]

ProbeKind == IF wfp.caller = "start_postgres_container" THEN "probe1" ELSE "probe2"

\* The loop head: the next attempt, or "failed to become ready in time".
WfpLoop ==
    /\ pc = "wfp_entry"
    /\ IF RangeHasNext(wfp.attempt, wfp.max_attempts)
         THEN /\ pc' = "wfp_probe"
              /\ wfp' = wfp
         ELSE /\ pc' = "wfp_done"
              /\ wfp' = [wfp EXCEPT !.result = "False"]
    /\ UNCHANGED << cmd, containerName, removeVolume, portBound, env, runs, manifest, gen, bi, rc, sql, exitStatus,
                    errorMsg, logged, calls, completed, stmts >>

\* One attempt: docker exec <container> pg_isready -U postgres.
WfpProbe ==
    /\ pc = "wfp_probe"
    /\ \E o \in Outcomes :
          LET exc == RunCommand(o, TRUE) IN
          /\ wfp' = [wfp EXCEPT !.attempt = @ + 1,
                                !.last = exc,
                                !.first_ok = IF exc = "none" /\ @ = 0
                                               THEN wfp.attempt + 1 ELSE @,
                                !.result = IF exc = "none" THEN "True"
                                           ELSE IF WfpCatches(exc) THEN @
                                           ELSE "raised"]
          /\ pc' = IF exc = "none" THEN "wfp_done"
                   ELSE IF WfpCatches(exc) THEN "wfp_sleep"
                   ELSE Uncaught
          /\ errorMsg' = IF exc = "none" \/ WfpCatches(exc) THEN errorMsg ELSE exc
    /\ IF IsRun THEN Count(ProbeKind) ELSE UNCHANGED calls
    /\ UNCHANGED << cmd, containerName, removeVolume, portBound, env, runs, manifest, gen, bi, rc, sql, exitStatus,
                    logged, completed, stmts >>

\* time.sleep(delay) in the except branch.
WfpSleep ==
    /\ pc = "wfp_sleep"
    /\ wfp' = [wfp EXCEPT !.sleeps = @ + 1, !.last = "sleep"]
    /\ pc' = "wfp_entry"
    /\ UNCHANGED << cmd, containerName, removeVolume, portBound, env, runs, manifest, gen, bi, rc, sql, exitStatus,
                    errorMsg, logged, calls, completed, stmts >>

\* Mutant of MainAfterStart: the result of start_postgres_container is not looked at.
MainAfterStart_IgnoresResult(result) == "ce_version"

\* main: if start_postgres_container(...): configure_extensions(...)
\*       else: raise Exception("Failed to start PostgreSQL container")
MainAfterStart(result) == IF result = "True" THEN "ce_version" ELSE "main_except"

\* main: if configure_extensions(...): time.sleep(2); create_extensions(...)
\*       else: raise Exception("Failed to configure extensions")
MainAfterConfigure(result) == IF result = "True" THEN "sql" ELSE "main_except"

\* wait_for_postgres returns; its caller returns the result to main.
WfpReturn ==
    /\ pc = "wfp_done"
    /\ \/ /\ wfp.caller = "direct"
          /\ pc' = "returned"
          /\ UNCHANGED << wfp, sql, errorMsg, completed >>
       \/ /\ wfp.caller = "start_postgres_container"
          /\ pc' = MainAfterStart(wfp.result)
          /\ errorMsg' = IF pc' = "main_except"
                           THEN "Failed to start PostgreSQL container" ELSE errorMsg
          /\ completed' = IF wfp.result = "True"
                            THEN completed \cup {"WaitingReady1"} ELSE completed
          /\ wfp' = NoWfp
          /\ sql' = sql
       \/ /\ wfp.caller = "configure_extensions"
          /\ pc' = MainAfterConfigure(wfp.result)
          /\ errorMsg' = IF pc' = "main_except"
                           THEN "Failed to configure extensions" ELSE errorMsg
          /\ completed' = IF wfp.result = "True"
                            THEN completed \cup {"WaitingReady2"} ELSE completed
          /\ sql' = IF pc' = "sql" THEN [fn |-> "create_extensions", idx |-> 1] ELSE sql
          /\ wfp' = NoWfp
    /\ UNCHANGED << cmd, containerName, removeVolume, portBound, env, runs, manifest, gen, bi, rc, exitStatus, logged,
                    calls, stmts >>

\* -------------------------------------------------- remove_container

\* Volume names docker may report for a container's mount ("" when it has none).
MountOutputs == {"", "postgres-extensions-data"}

\* docker container inspect <name>
RcInspect ==
    /\ pc = "rc_inspect"
    /\ \E o \in Outcomes :
          LET exc == RunCommand(o, TRUE) IN
          /\ rc' = [rc EXCEPT !.container_exists = (exc = "none")]
          /\ pc' = IF exc = "none"
                     THEN IF rc.remove_volume THEN "rc_getvol" ELSE "rc_rm"
                   ELSE IF exc = "CalledProcessError" THEN "rc_return"
                   ELSE "main_except"
          /\ errorMsg' = IF exc = "OSError" THEN exc ELSE errorMsg
    /\ Count("rc_inspect")
    /\ UNCHANGED << cmd, containerName, removeVolume, portBound, env, runs, manifest, gen, bi, wfp, sql, exitStatus,
                    logged, completed, stmts >>

\* get_container_volume: the name of the container's volume mount, or None.
RcGetVolume ==
    /\ pc = "rc_getvol"
    /\ \E o \in Outcomes, out \in MountOutputs :
          LET exc == RunCommand(o, TRUE) IN
          /\ rc' = [rc EXCEPT !.volume_name =
                        IF exc = "none" /\ out # "" THEN out ELSE "none"]
          /\ pc' = IF exc = "OSError" THEN "main_except" ELSE "rc_rm"
          /\ errorMsg' = IF exc = "OSError" THEN exc ELSE errorMsg
    /\ Count("rc_getvol")
    /\ UNCHANGED << cmd, containerName, removeVolume, portBound, env, runs, manifest, gen, bi, wfp, sql, exitStatus,
                    logged, completed, stmts >>

\* Mutant of RcWantsVolume: the volume is dealt with whatever was asked for.
RcWantsVolume_Always == TRUE

\* if remove_volume and volume_name:
RcWantsVolume == rc.remove_volume /\ rc.volume_name # "none"

\* run_command(['docker', 'rm', '-f', container_name], check=False)
RcRemoveCheck == FALSE

\* docker rm -f <name>
RcRemove ==
    /\ pc = "rc_rm"
    /\ \E o \in Outcomes :
          LET exc == RunCommand(o, RcRemoveCheck) IN
          /\ pc' = IF exc # "none" THEN "main_except"
                   ELSE IF RcWantsVolume THEN "rc_volexists"
                   ELSE "rc_return"
          /\ errorMsg' = IF exc # "none" THEN exc ELSE errorMsg
          /\ rc' = [rc EXCEPT !.rm_failed = (o = "nonzero")]
    /\ Count("rc_rm")
    /\ UNCHANGED << cmd, containerName, removeVolume, portBound, env, runs, manifest, gen, bi, wfp, sql, exitStatus,
                    logged, completed, stmts >>

\* does_volume_exist: docker volume inspect <volume>
RcVolumeExists ==
    /\ pc = "rc_volexists"
    /\ \E o \in Outcomes :
          LET exc == RunCommand(o, TRUE) IN
          /\ pc' = IF exc = "none" THEN "rc_volrm"
                   ELSE IF exc = "CalledProcessError" THEN "rc_return"
                   ELSE "main_except"
          /\ errorMsg' = IF exc = "OSError" THEN exc ELSE errorMsg
          /\ rc' = [rc EXCEPT !.volume_exists = (exc = "none")]
    /\ Count("rc_volexists")
    /\ UNCHANGED << cmd, containerName, removeVolume, portBound, env, runs, manifest, gen, bi, wfp, sql, exitStatus,
                    logged, completed, stmts >>

\* docker volume rm -f <volume>, check=False
RcVolumeRemove ==
    /\ pc = "rc_volrm"
    /\ \E o \in Outcomes :
          LET exc == RunCommand(o, FALSE) IN
          /\ pc' = IF exc # "none" THEN "main_except" ELSE "rc_return"
          /\ errorMsg' = IF exc # "none" THEN exc ELSE errorMsg
    /\ Count("rc_volrm")
    /\ UNCHANGED << cmd, containerName, removeVolume, portBound, env, runs, manifest, gen, bi, wfp, rc, sql, exitStatus,
                    logged, completed, stmts >>

\* remove_container returns to main: the remove command is done, a run goes on
\* to start_postgres_container.
RcReturn ==
    /\ pc = "rc_return"
    /\ rc' = NoRc
    /\ IF IsRun
         THEN /\ pc' = "spc_port"
              /\ completed' = completed \cup {"Teardown"}
         ELSE /\ pc' = "main_return"
              /\ completed' = completed
    /\ UNCHANGED << cmd, containerName, removeVolume, portBound, env, runs, manifest, gen, bi, wfp, sql, exitStatus,
                    errorMsg, logged, calls, stmts >>

\* ------------------------------------------ start_postgres_container

\* Mutant of PortCheckRaises: the port check is skipped.
PortCheckRaises_Never(inUse) == FALSE

\* if is_port_in_use(int(port)): raise Exception("Port ... is already in use ...")
PortCheckRaises(inUse) == inUse

\* The pre-flight check of the host port.
SpcPortCheck ==
    /\ pc = "spc_port"
    /\ pc' = IF PortCheckRaises(portBound) THEN "main_except" ELSE "spc_run"
    /\ errorMsg' = IF PortCheckRaises(portBound)
                     THEN "Port is already in use" ELSE errorMsg
    /\ Count("port_check")
    /\ UNCHANGED << cmd, containerName, removeVolume, portBound, env, runs, manifest, gen, bi, wfp, rc, sql, exitStatus,
                    logged, completed, stmts >>

\* docker run --name <container_name> ... -d <image>, then wait_for_postgres(container_name)
SpcRun ==
    /\ pc = "spc_run"
    /\ \E o \in Outcomes :
          LET exc == RunCommand(o, TRUE) IN
          /\ pc' = IF exc = "none" THEN "wfp_entry" ELSE "main_except"
          /\ errorMsg' = IF exc = "none" THEN errorMsg ELSE exc
          /\ completed' = IF exc = "none" THEN completed \cup {"Provisioned"}
                          ELSE completed
          /\ IF exc = "none"
               THEN WfpCall(containerName, "start_postgres_container")
               ELSE wfp' = wfp
    /\ Count("docker_run")
    /\ UNCHANGED << cmd, containerName, removeVolume, portBound, env, runs, manifest, gen, bi, rc, sql, exitStatus,
                    logged, stmts >>

\* ---------------------------------------------- configure_extensions

\* The container configure_extensions waits for after the restart:
\* "return wait_for_postgres()", every argument left to its default.
CeWaitTarget(container_name) == DefaultContainer

\* The commands of configure_extensions, in order; each is run with check=True.
CeSteps == << "psql_version", "symlink", "append_spl", "append_sp", "restart" >>

CePc == [ psql_version |-> "ce_version", symlink |-> "ce_symlink",
          append_spl |-> "ce_spl", append_sp |-> "ce_sp", restart |-> "ce_restart" ]

\* Outputs of psql --version: one the version regex matches, one it does not.
VersionOutputs == {"psql (PostgreSQL) 16.1", "psql"}

\* re.search(r'(\d+)\.', version_output)
VersionParses(out) == out = "psql (PostgreSQL) 16.1"

\* get_postgres_version(container_name): any failure is logged and re-raised.
CeVersion ==
    /\ pc = "ce_version"
    /\ \E o \in Outcomes, out \in VersionOutputs :
          LET exc == IF RunCommand(o, TRUE) # "none" THEN RunCommand(o, TRUE)
                     ELSE IF VersionParses(out) THEN "none"
                     ELSE "ValueError" IN
          /\ pc' = IF exc = "none" THEN "ce_symlink" ELSE "main_except"
          /\ errorMsg' = IF exc = "none" THEN errorMsg ELSE exc
    /\ Count("psql_version")
    /\ UNCHANGED << cmd, containerName, removeVolume, portBound, env, runs, manifest, gen, bi, wfp, rc, sql, exitStatus,
                    logged, completed, stmts >>

\* The symlink, the two appends to postgresql.conf and the restart: step i of CeSteps.
CeStep(i) ==
    /\ pc = CePc[CeSteps[i]]
    /\ \E o \in Outcomes :
          LET exc == RunCommand(o, TRUE) IN
          /\ pc' = IF exc # "none" THEN "main_except"
                   ELSE IF i < Len(CeSteps) THEN CePc[CeSteps[i + 1]]
                   ELSE "wfp_entry"
          /\ errorMsg' = IF exc = "none" THEN errorMsg ELSE exc
          /\ completed' = IF exc # "none" THEN completed
                          ELSE IF CeSteps[i] = "append_sp"
                                 THEN completed \cup {"Configured"}
                          ELSE IF CeSteps[i] = "restart"
                                 THEN completed \cup {"Restarting"}
                          ELSE completed
          /\ IF exc = "none" /\ i = Len(CeSteps)
               THEN WfpCall(CeWaitTarget(containerName), "configure_extensions")
               ELSE wfp' = wfp
    /\ Count(CeSteps[i])
    /\ UNCHANGED << cmd, containerName, removeVolume, portBound, env, runs, manifest, gen, bi, rc, sql, exitStatus,
                    logged, stmts >>

CeSymlink == CeStep(2)

CeAppendPreload == CeStep(3)

CeAppendSearchPath == CeStep(4)

CeRestart == CeStep(5)

\* ------------------------------------------------------- execute_sql

\* The (sql, description) lists, by their descriptions.
CreateSteps ==
    << "Dropping vectors extension if exists", "Creating vectors extension",
       "Loading vectors", "Creating age extension", "Loading age",
       "Creating timescaledb extension", "Setting search path" >>

TestSteps == << "AGE graph creation and deletion", "TimescaleDB hypertable creation" >>

VectorSteps ==
    << "Cleaning up any existing items table", "Creating items table",
       "Inserting test data", "Creating vector index", "Testing KNN query",
       "Cleaning up items table" >>

Steps(fn) ==
    CASE fn = "create_extensions" -> CreateSteps
      [] fn = "test_extensions" -> TestSteps
      [] fn = "test_vectors_extension" -> VectorSteps

\* Mutant of ExecuteSqlRaises: the except branch logs and does not re-raise.
ExecuteSqlRaises_Swallows(exc) == exc = "OSError"

\* execute_sql: "except subprocess.CalledProcessError ... raise"; nothing else is
\* caught, so every exception of run_command leaves execute_sql.
ExecuteSqlRaises(exc) == exc # "none"

\* execute_sql logs "Failed: <description>" in its except branch.
ExecuteSqlLogsFailed(exc) == exc = "CalledProcessError"

\* Statement sql.idx of the list of sql.fn, through execute_sql; on success the
\* loop goes on, and after the last statement the function returns.
ExecuteSql ==
    /\ pc = "sql"
    /\ \E o \in Outcomes :
          LET exc  == RunCommand(o, TRUE)
              desc == Steps(sql.fn)[sql.idx]
              last == sql.idx = Len(Steps(sql.fn))
          IN
          /\ logged' = IF ExecuteSqlLogsFailed(exc)
                         THEN logged \cup {<< "Failed", desc >>} ELSE logged
          /\ errorMsg' = IF ExecuteSqlRaises(exc) THEN exc ELSE errorMsg
          /\ IF ExecuteSqlRaises(exc)
               THEN /\ pc' = "main_except"
                    /\ UNCHANGED << sql, completed >>
               ELSE IF ~last
               THEN /\ pc' = "sql"
                    /\ sql' = [sql EXCEPT !.idx = @ + 1]
                    /\ completed' = completed
               ELSE IF sql.fn = "create_extensions"
               THEN /\ pc' = "ve_running"
                    /\ sql' = NoSql
                    /\ completed' = completed \cup {"Bootstrapped"}
               ELSE IF sql.fn = "test_extensions"
               THEN /\ pc' = "sql"
                    /\ sql' = [fn |-> "test_vectors_extension", idx |-> 1]
                    /\ completed' = completed
               ELSE /\ pc' = IF IsRun THEN "run_completed" ELSE "main_return"
                    /\ sql' = NoSql
                    /\ completed' = IF IsRun THEN completed \cup {"Tested"}
                                    ELSE completed
    /\ stmts' = Append(stmts, << sql.fn, sql.idx >>)
    /\ Count(IF sql.fn = "create_extensions" THEN "sql_create" ELSE "sql_test")
    /\ UNCHANGED << cmd, containerName, removeVolume, portBound, env, runs, manifest, gen, bi, wfp, rc, exitStatus >>

\* ----------------------------- verify_extensions and test_extensions

\* Outputs of docker container inspect -f '{{.State.Running}}'.
RunningOutputs == {"true", "false"}

\* is_container_running: output.lower() == 'true'; a CalledProcessError is False.
IsContainerRunning(exc, out) == exc = "none" /\ out = "true"

\* verify_extensions: "if not is_container_running(...): log an error; return False".
\* main does not look at what verify_extensions returns.
VeRunning ==
    /\ pc = "ve_running"
    /\ \E o \in Outcomes, out \in RunningOutputs :
          LET exc == RunCommand(o, TRUE) IN
          /\ pc' = IF exc = "OSError" THEN "main_except"
                   ELSE IF IsContainerRunning(exc, out) THEN "ve_query"
                   ELSE IF IsRun THEN "te_running"
                   ELSE "main_return"
          /\ errorMsg' = IF exc = "OSError" THEN exc ELSE errorMsg
          /\ logged' = IF exc # "OSError" /\ ~IsContainerRunning(exc, out)
                         THEN logged \cup {<< "error", "Container is not running" >>}
                         ELSE logged
    /\ Count("verify_running")
    /\ UNCHANGED << cmd, containerName, removeVolume, portBound, env, runs, manifest, gen, bi, wfp, rc, sql, exitStatus,
                    completed, stmts >>

\* verify_extensions: the query on pg_extension, through run_command(shell=True).
VeQuery ==
    /\ pc = "ve_query"
    /\ \E o \in Outcomes :
          LET exc == RunCommand(o, TRUE) IN
          /\ pc' = IF exc # "none" THEN "main_except"
                   ELSE IF IsRun THEN "te_running"
                   ELSE "main_return"
          /\ errorMsg' = IF exc # "none" THEN exc ELSE errorMsg
          /\ completed' = IF exc = "none" /\ IsRun
                            THEN completed \cup {"Verified"} ELSE completed
    /\ Count("verify_query")
    /\ UNCHANGED << cmd, containerName, removeVolume, portBound, env, runs, manifest, gen, bi, wfp, rc, sql, exitStatus,
                    logged, stmts >>

\* test_extensions: "if not is_container_running(...): log an error; return False".
\* main does not look at what test_extensions returns.
TeRunning ==
    /\ pc = "te_running"
    /\ \E o \in Outcomes, out \in RunningOutputs :
          LET exc == RunCommand(o, TRUE) IN
          /\ pc' = IF exc = "OSError" THEN "main_except"
                   ELSE IF IsContainerRunning(exc, out) THEN "sql"
                   ELSE IF IsRun THEN "run_completed"
                   ELSE "main_return"
          /\ sql' = IF pc' = "sql" THEN [fn |-> "test_extensions", idx |-> 1] ELSE sql
          /\ errorMsg' = IF exc = "OSError" THEN exc ELSE errorMsg
          /\ logged' = IF exc # "OSError" /\ ~IsContainerRunning(exc, out)
                         THEN logged \cup {<< "error", "Container is not running" >>}
                         ELSE logged
    /\ Count("test_running")
    /\ UNCHANGED << cmd, containerName, removeVolume, portBound, env, runs, manifest, gen, bi, wfp, rc, exitStatus,
                    completed, stmts >>

\* ------------------------------ DockerfileGenerator and the Dockerfile

\* What open(config_file) + yaml.safe_load give: a mapping ("ok"), an exception
\* of theirs, or a document that is not a container (None), on which
\* validate_config's "field not in self.config" raises TypeError.
LoadOutcomes == {"ok", "OSError", "YAMLError", "TypeError"}

\* Mutant of AfterGenerator: the caller goes on whatever the generator did.
AfterGenerator_GoesOn(result, next) == next

\* Where the caller of the generator goes: to its next statement, or, the
\* exception not being caught in build_image or in main's try block, to Uncaught.
AfterGenerator(result, next) == IF result = "ok" THEN next ELSE Uncaught

\* generator = DockerfileGenerator(args.config)
DgInit ==
    /\ pc = "dg_init"
    /\ \E load \in LoadOutcomes :
          LET field == ValidateConfig(manifest)
              result == IF load # "ok" THEN load
                        ELSE IF field # "none" THEN "ValueError"
                        ELSE "ok" IN
          /\ gen' = [NoGen EXCEPT !.stage = "load", !.result = result,
                                  !.mentions = IF result = "ValueError" THEN {field}
                                               ELSE {}]
          /\ pc' = AfterGenerator(result, "dg_generate")
          /\ errorMsg' = IF result = "ok" THEN errorMsg ELSE result
    /\ UNCHANGED << cmd, containerName, removeVolume, portBound, env, runs, manifest, wfp, rc, sql, bi,
                    exitStatus, logged, calls, completed, stmts >>

\* dockerfile_content = generator.generate_dockerfile()
DgGenerate ==
    /\ pc = "dg_generate"
    /\ LET r == GenerateDockerfile(manifest)
           result == IF r.exc = "none" THEN "ok" ELSE r.exc IN
       /\ gen' = [stage |-> "generate", result |-> result,
                  mentions |-> IF r.exc = "none" THEN {} ELSE {r.key},
                  script |-> r.value]
       /\ pc' = AfterGenerator(result, IF cmd = DirectGen THEN "returned" ELSE "df_write")
       /\ errorMsg' = IF result = "ok" THEN errorMsg ELSE result
    /\ UNCHANGED << cmd, containerName, removeVolume, portBound, env, runs, manifest, wfp, rc, sql, bi,
                    exitStatus, logged, calls, completed, stmts >>

\* with open('PostgresWithExtensions.dockerfile', 'w') as f: f.write(dockerfile_content)
DfWrite ==
    /\ pc = "df_write"
    /\ \E o \in {"ok", "OSError"} :
          /\ pc' = IF o = "OSError" THEN "main_except"
                   ELSE IF cmd = "generate" THEN "main_return"
                   ELSE "bi_platform"
          /\ errorMsg' = IF o = "OSError" THEN o ELSE errorMsg
          /\ bi' = [bi EXCEPT !.written = (o = "ok")]
    /\ UNCHANGED << cmd, containerName, removeVolume, portBound, env, runs, manifest, gen, wfp, rc, sql, exitStatus,
                    logged, calls, completed, stmts >>

\* ------------------------------------------------------- build_image

\* Values of platform.machine().lower().
Machines == {"arm64", "aarch64", "x86_64", "amd64", "riscv64"}

\* get_system_architecture
GetSystemArchitecture(machine) ==
    IF machine \in {"arm64", "aarch64"} THEN "linux/arm64"
    ELSE IF machine \in {"x86_64", "amd64"} THEN "linux/amd64"
    ELSE "unsupported"

\* if platform is None: platform = get_system_architecture(); then the first
\* cleanup_buildx() begins.
BiPlatform ==
    /\ pc = "bi_platform"
    /\ \E given \in {"none", "linux/amd64", "linux/arm64"}, machine \in Machines :
          LET platform == IF given = "none" THEN GetSystemArchitecture(machine)
                          ELSE given IN
          /\ pc' = IF platform = "unsupported" THEN "main_except" ELSE "cb_ls"
          /\ errorMsg' = IF platform = "unsupported"
                           THEN "Unsupported architecture" ELSE errorMsg
          /\ bi' = [bi EXCEPT !.platform = platform]
    /\ UNCHANGED << cmd, containerName, removeVolume, portBound, env, runs, manifest, gen, wfp, rc, sql, exitStatus,
                    logged, calls, completed, stmts >>

\* cleanup_buildx: docker buildx ls; "except Exception" ends the cleanup with a warning.
CbList ==
    /\ pc = "cb_ls"
    /\ \E o \in Outcomes, n \in 0..MaxListed :
          LET exc == RunCommand(o, TRUE) IN
          /\ pc' = IF exc # "none" THEN "cb_return"
                   ELSE IF n > 0 THEN "cb_rmb" ELSE "cb_ps"
          /\ bi' = [bi EXCEPT !.called = TRUE,
                              !.cleanup_raised = @ \/ (bi.in_finally /\ exc # "none"),
                              !.left = IF exc = "none" THEN n ELSE 0]
    /\ UNCHANGED << cmd, containerName, removeVolume, portBound, env, runs, manifest, gen, wfp, rc, sql, exitStatus,
                    errorMsg, logged, calls, completed, stmts >>

\* cleanup_buildx: docker buildx rm pg-extensions-builder, check=False, once per
\* line of the listing that names the builder.
CbRemoveBuilder ==
    /\ pc = "cb_rmb"
    /\ \E o \in Outcomes :
          LET exc == RunCommand(o, FALSE) IN
          /\ pc' = IF exc # "none" THEN "cb_return"
                   ELSE IF bi.left > 1 THEN "cb_rmb" ELSE "cb_ps"
          /\ bi' = [bi EXCEPT !.called = TRUE,
                              !.cleanup_raised = @ \/ (bi.in_finally /\ exc # "none"),
                              !.left = IF exc = "none" THEN @ - 1 ELSE 0]
    /\ UNCHANGED << cmd, containerName, removeVolume, portBound, env, runs, manifest, gen, wfp, rc, sql, exitStatus,
                    errorMsg, logged, calls, completed, stmts >>

\* cleanup_buildx: docker ps -a --filter name=buildx_buildkit_pg-extensions-builder
CbPs ==
    /\ pc = "cb_ps"
    /\ \E o \in Outcomes, n \in 0..MaxListed :
          LET exc == RunCommand(o, TRUE) IN
          /\ pc' = IF exc # "none" THEN "cb_return"
                   ELSE IF n > 0 THEN "cb_rmc" ELSE "cb_return"
          /\ bi' = [bi EXCEPT !.called = TRUE,
                              !.cleanup_raised = @ \/ (bi.in_finally /\ exc # "none"),
                              !.left = IF exc = "none" THEN n ELSE 0]
    /\ UNCHANGED << cmd, containerName, removeVolume, portBound, env, runs, manifest, gen, wfp, rc, sql, exitStatus,
                    errorMsg, logged, calls, completed, stmts >>

\* cleanup_buildx: docker rm -f <container>, check=False, once per listed container.
CbRemoveContainer ==
    /\ pc = "cb_rmc"
    /\ \E o \in Outcomes :
          LET exc == RunCommand(o, FALSE) IN
          /\ pc' = IF exc # "none" THEN "cb_return"
                   ELSE IF bi.left > 1 THEN "cb_rmc" ELSE "cb_return"
          /\ bi' = [bi EXCEPT !.called = TRUE,
                              !.cleanup_raised = @ \/ (bi.in_finally /\ exc # "none"),
                              !.left = IF exc = "none" THEN @ - 1 ELSE 0]
    /\ UNCHANGED << cmd, containerName, removeVolume, portBound, env, runs, manifest, gen, wfp, rc, sql, exitStatus,
                    errorMsg, logged, calls, completed, stmts >>

\* cleanup_buildx returns: to the creation of the builder, or, in the finally
\* block, to the end of build_image (which re-raises what the try block raised).
CbReturn ==
    /\ pc = "cb_return"
    /\ IF ~bi.in_finally
         THEN /\ pc' = "bi_create"
              /\ bi' = [bi EXCEPT !.cleanups = @ + 1]
              /\ UNCHANGED << rc, errorMsg >>
         ELSE IF bi.pending # "none"
         THEN /\ pc' = "main_except"
              /\ bi' = [bi EXCEPT !.cleanups = @ + 1]
              /\ errorMsg' = bi.pending
              /\ rc' = rc
         ELSE /\ pc' = IF cmd = "build" THEN "main_return" ELSE "rc_inspect"
              /\ bi' = IF cmd = "build" THEN [bi EXCEPT !.cleanups = @ + 1]
                       ELSE [NoBi EXCEPT !.written = bi.written, !.called = bi.called,
                                         !.created = bi.created, !.built = bi.built,
                                         !.cleanups = bi.cleanups + 1]
              /\ rc' = NoRc
              /\ errorMsg' = errorMsg
    /\ UNCHANGED << cmd, containerName, removeVolume, portBound, env, runs, manifest, gen, wfp, sql, exitStatus,
                    logged, calls, completed, stmts >>

\* docker buildx create --name pg-extensions-builder --use (outside the try block)
BiCreate ==
    /\ pc = "bi_create"
    /\ \E o \in Outcomes :
          LET exc == RunCommand(o, TRUE) IN
          /\ pc' = IF exc = "none" THEN "bi_build" ELSE "main_except"
          /\ errorMsg' = IF exc = "none" THEN errorMsg ELSE exc
          /\ bi' = [bi EXCEPT !.called = TRUE, !.created = (exc = "none")]
    /\ UNCHANGED << cmd, containerName, removeVolume, portBound, env, runs, manifest, gen, wfp, rc, sql, exitStatus,
                    logged, calls, completed, stmts >>

\* Mutant of BiAfterBuild: the cleanup follows a successful build only.
BiAfterBuild_NoFinally(o) == IF o = "ok" THEN "cb_ls" ELSE "main_except"

\* try: ... finally: cleanup_buildx() -- whatever the try block did, the
\* cleanup comes next.
BiAfterBuild(o) == "cb_ls"

\* The try block: Popen(docker buildx build ...), stream the output, wait; a
\* non-zero returncode raises CalledProcessError. Then the finally block begins.
BiBuild ==
    /\ pc = "bi_build"
    /\ \E o \in Outcomes :
          /\ bi' = [bi EXCEPT !.called = TRUE, !.built = o,
                              !.pending = IF o = "ok" THEN "none"
                                          ELSE IF o = "nonzero" THEN "CalledProcessError"
                                          ELSE "OSError",
                              !.in_finally = TRUE]
          /\ pc' = BiAfterBuild(o)
    /\ UNCHANGED << cmd, containerName, removeVolume, portBound, env, runs, manifest, gen, wfp, rc, sql, exitStatus,
                    errorMsg, logged, calls, completed, stmts >>

\* -------------------------------------------------------------- main

CompletionLine == << "info", "setup completed successfully" >>

\* main, start / full-setup: logging.info("... setup completed successfully.")
RunCompleted ==
    /\ pc = "run_completed"
    /\ logged' = logged \cup {CompletionLine}
    /\ completed' = completed \cup {"Done"}
    /\ pc' = "main_return"
    /\ UNCHANGED << cmd, containerName, removeVolume, portBound, env, runs, manifest, gen, bi, wfp, rc, sql, exitStatus,
                    errorMsg, calls, stmts >>

\* main returns without an exception: the process exits with status 0.
MainReturn ==
    /\ pc = "main_return"
    /\ exitStatus' = "0"
    /\ pc' = "exited"
    /\ UNCHANGED << cmd, containerName, removeVolume, portBound, env, runs, manifest, gen, bi, wfp, rc, sql, errorMsg,
                    logged, calls, completed, stmts >>

\* Mutant of AfterFailure: a failure after the container was created goes back
\* to remove_container.
AfterFailure_RollsBack(created) == IF created THEN "rc_inspect" ELSE "exited"

\* What main's handler does after logging the error: sys.exit(1), whether or not
\* the run has created its container.
AfterFailure(created) == "exited"

\* except Exception as e: logging.error(...); sys.exit(1)
MainExcept ==
    /\ pc = "main_except"
    /\ exitStatus' = "1"
    /\ logged' = logged \cup {<< "error", "An error occurred" >>}
    /\ pc' = AfterFailure("Provisioned" \in completed)
    /\ UNCHANGED << cmd, containerName, removeVolume, portBound, env, runs, manifest, gen, bi, wfp, rc, sql, errorMsg,
                    calls, completed, stmts >>

\* The dispatch on args.command.
Main ==
    /\ pc = "main"
    /\ pc' = CASE cmd = "generate" -> "dg_init"
               [] cmd = "none" -> "exited"
               [] cmd \in {"build", "full-setup"} -> "dg_init"
               [] cmd \in {"remove", "start"} -> "rc_inspect"
               [] cmd = "verify" -> "ve_running"
               [] cmd = "test" -> "te_running"
    /\ exitStatus' = IF cmd = "none" THEN "2" ELSE exitStatus
    /\ rc' = IF cmd = "remove" THEN [NoRc EXCEPT !.remove_volume = removeVolume]
             ELSE rc
    /\ UNCHANGED << cmd, containerName, removeVolume, portBound, env, runs, manifest, gen, bi, wfp, sql, errorMsg, logged,
                    calls, completed, stmts >>

Next ==
    \/ Main
    \/ RcInspect \/ RcGetVolume \/ RcRemove \/ RcVolumeExists \/ RcVolumeRemove
    \/ RcReturn
    \/ SpcPortCheck \/ SpcRun
    \/ WfpLoop \/ WfpProbe \/ WfpSleep \/ WfpReturn
    \/ CeVersion \/ CeSymlink \/ CeAppendPreload \/ CeAppendSearchPath \/ CeRestart
    \/ ExecuteSql
    \/ VeRunning \/ VeQuery \/ TeRunning
    \/ DgInit \/ DgGenerate \/ DfWrite
    \/ BiPlatform \/ CbList \/ CbRemoveBuilder \/ CbPs \/ CbRemoveContainer
    \/ CbReturn \/ BiCreate \/ BiBuild
    \/ RunCompleted \/ MainReturn \/ MainExcept

Spec == Init /\ [][Next]_vars

\* The generator alone: DockerfileGenerator(config_file).generate_dockerfile(),
\* called directly, over every manifest of GenManifests.
InitGen ==
    /\ cmd = DirectGen
    /\ containerName = DefaultContainer
    /\ removeVolume = FALSE
    /\ portBound = FALSE
    /\ manifest \in GenManifests
    /\ gen = NoGen
    /\ env = NoEnv
    /\ runs = [p \in Procs |-> IdleRun]
    /\ pc = "dg_init"
    /\ wfp = NoWfp
    /\ rc = NoRc
    /\ sql = NoSql
    /\ bi = NoBi
    /\ exitStatus = "running"
    /\ errorMsg = "none"
    /\ logged = {}
    /\ calls = [k \in CallKinds |-> 0]
    /\ completed = {}
    /\ stmts = << >>

NextGen == DgInit \/ DgGenerate

SpecGen == InitGen /\ [][NextGen]_vars

\* ------------------------------- start runs sharing a container runtime

\* Several "start" runs of main(), each a process of its own, against one
\* container runtime whose commands fail only for a reason in its state: they
\* all target the default container name, the default volume and the same host
\* port. A statement loop (create_extensions, test_extensions) is one step here.

\* Mutant of RunSteps: remove_container is called after the container was started.
RunSteps_TeardownAfterStart ==
    << "port_check", "docker_run", "rc_inspect", "rc_remove", "wait1",
       "psql_version", "symlink", "append_spl", "append_sp", "restart", "wait2",
       "sql_create", "verify_running", "verify_query", "test_running", "sql_test" >>

\* The statements of a start run with an external effect, in main's order:
\* remove_container, start_postgres_container, configure_extensions,
\* create_extensions, verify_extensions, test_extensions.
RunSteps ==
    << "rc_inspect", "rc_remove", "port_check", "docker_run", "wait1",
       "psql_version", "symlink", "append_spl", "append_sp", "restart", "wait2",
       "sql_create", "verify_running", "verify_query", "test_running", "sql_test" >>

\* The statement after a step ("done": main returns).
NextStep(step) ==
    LET i == CHOOSE k \in DOMAIN RunSteps : RunSteps[k] = step IN
    IF i = Len(RunSteps) THEN "done" ELSE RunSteps[i + 1]

Active(q) == runs[q].pc \notin {"idle", "done", "failed"}

\* The step of run p went through / raised up to main's handler (sys.exit(1)).
StepOk(p) == [runs[p] EXCEPT !.pc = NextStep(@)]

StepFails(p) == [runs[p] EXCEPT !.pc = "failed", !.failed_at = runs[p].pc]

\* "docker exec <name> ..." exits 0 only if a container has the name.
ExecOk == env.container # 0

\* Mutant of AppendLine: the line is written only if the file does not have it.
AppendLine_Idempotent(n) == IF n = 0 THEN 1 ELSE n

\* echo "<line>" >> /var/lib/postgresql/data/postgresql.conf
AppendLine(n) == n + 1

\* What a step of a run leaves alone: the single-run state of main().
EnvFrame ==
    UNCHANGED << cmd, containerName, removeVolume, portBound, manifest, gen, pc, wfp,
                 rc, sql, bi, exitStatus, errorMsg, logged, calls, completed, stmts >>

\* main() is started with the command start.
EnvStart(p) ==
    /\ runs[p].pc = "idle"
    /\ runs' = [q \in Procs |->
                  IF q = p THEN [IdleRun EXCEPT !.pc = RunSteps[1],
                                                !.overlapped = \E o \in Procs : Active(o)]
                  ELSE IF Active(q) THEN [runs[q] EXCEPT !.overlapped = TRUE]
                  ELSE runs[q]]
    /\ env' = env
    /\ EnvFrame

\* remove_container: docker container inspect <name>; CalledProcessError: pass
EnvInspect(p) ==
    /\ runs[p].pc = "rc_inspect"
    /\ runs' = [runs EXCEPT ![p] = [StepOk(p) EXCEPT !.container_exists = ExecOk]]
    /\ env' = env
    /\ EnvFrame

\* remove_container: if container_exists: docker rm -f <name>, check=False;
\* remove_volume is False in a run, so nothing is done about the volume.
EnvRemove(p) ==
    /\ runs[p].pc = "rc_remove"
    /\ env' = IF runs[p].container_exists
                THEN [env EXCEPT !.container = 0, !.link = FALSE]
                ELSE env
    /\ runs' = [runs EXCEPT ![p] = StepOk(p)]
    /\ EnvFrame

\* start_postgres_container: the port is bound while a container publishes it.
EnvPortCheck(p) ==
    /\ runs[p].pc = "port_check"
    /\ runs' = [runs EXCEPT ![p] = IF PortCheckRaises(env.container # 0)
                                     THEN StepFails(p) ELSE StepOk(p)]
    /\ env' = env
    /\ EnvFrame

\* docker run --name <name> -v <volume>:/var/lib/postgresql/data -d <image>:
\* fails when the name is taken; creates the volume if there is none.
EnvDockerRun(p) ==
    /\ runs[p].pc = "docker_run"
    /\ IF env.container # 0
         THEN /\ runs' = [runs EXCEPT ![p] = StepFails(p)]
              /\ env' = env
         ELSE /\ runs' = [runs EXCEPT ![p] = [StepOk(p) EXCEPT !.provisioned = TRUE]]
              /\ env' = [env EXCEPT !.container = p, !.link = FALSE, !.volume = TRUE]
    /\ EnvFrame

\* wait_for_postgres: returns True on a successful probe; with no container of
\* the name every probe fails and it returns False, on which main raises.
EnvWait(p) ==
    /\ runs[p].pc \in {"wait1", "wait2"}
    /\ runs' = [runs EXCEPT ![p] = IF ExecOk THEN StepOk(p) ELSE StepFails(p)]
    /\ env' = env
    /\ EnvFrame

\* A command run with check=True in the container: psql --version, docker
\* restart, the statements of create_extensions / verify / test.
EnvExec(p) ==
    /\ runs[p].pc \in {"psql_version", "restart", "sql_create", "verify_query", "sql_test"}
    /\ runs' = [runs EXCEPT ![p] = IF ExecOk THEN StepOk(p) ELSE StepFails(p)]
    /\ env' = env
    /\ EnvFrame

\* mkdir -p <lib>/plugins && ln -s <lib>/age.so <lib>/plugins/age.so: ln fails
\* when the link is there.
EnvSymlink(p) ==
    /\ runs[p].pc = "symlink"
    /\ IF ExecOk /\ ~env.link
         THEN /\ runs' = [runs EXCEPT ![p] = StepOk(p)]
              /\ env' = [env EXCEPT !.link = TRUE]
         ELSE /\ runs' = [runs EXCEPT ![p] = StepFails(p)]
              /\ env' = env
    /\ EnvFrame

\* The two appends to postgresql.conf, which is in the data volume.
EnvAppend(p) ==
    /\ runs[p].pc \in {"append_spl", "append_sp"}
    /\ IF ExecOk
         THEN /\ runs' = [runs EXCEPT ![p] =
                            [StepOk(p) EXCEPT !.configured = (runs[p].pc = "append_sp")]]
              /\ env' = IF runs[p].pc = "append_spl"
                          THEN [env EXCEPT !.spl = AppendLine(@)]
                          ELSE [env EXCEPT !.sp = AppendLine(@)]
         ELSE /\ runs' = [runs EXCEPT ![p] = StepFails(p)]
              /\ env' = env
    /\ EnvFrame

\* verify_extensions / test_extensions: if not is_container_running(name):
\* return False, which main does not look at.
EnvRunning(p) ==
    /\ runs[p].pc \in {"verify_running", "test_running"}
    /\ runs' = [runs EXCEPT ![p] =
                  [runs[p] EXCEPT !.running = ExecOk,
                                  !.pc = IF ExecOk THEN NextStep(@)
                                         ELSE NextStep(NextStep(@))]]
    /\ env' = env
    /\ EnvFrame

InitEnv ==
    /\ cmd = "start"
    /\ containerName = DefaultContainer
    /\ removeVolume = FALSE
    /\ portBound = FALSE
    /\ env = NoEnv
    /\ runs = [p \in Procs |-> IdleRun]
    /\ manifest = BaseManifest
    /\ gen = NoGen
    /\ pc = "main"
    /\ wfp = NoWfp
    /\ rc = NoRc
    /\ sql = NoSql
    /\ bi = NoBi
    /\ exitStatus = "running"
    /\ errorMsg = "none"
    /\ logged = {}
    /\ calls = [k \in CallKinds |-> 0]
    /\ completed = {}
    /\ stmts = << >>

NextEnv ==
    \E p \in Procs :
       \/ EnvStart(p) \/ EnvInspect(p) \/ EnvRemove(p) \/ EnvPortCheck(p)
       \/ EnvDockerRun(p) \/ EnvWait(p) \/ EnvExec(p) \/ EnvSymlink(p)
       \/ EnvAppend(p) \/ EnvRunning(p)

SpecEnv == InitEnv /\ [][NextEnv]_vars

\* ------------------------------------------------------------ claims

\* Phases after p in the order of the run.
After(p) == {q \in Phases : PhaseIndex(q) > PhaseIndex(p)}

\* Phases before p in the order of the run.
Before(p) == {q \in Phases : PhaseIndex(q) < PhaseIndex(p)}

Ended == pc \in {"main_except", "exited"}

\* C1: wait_for_postgres returns True at the first probe that succeeds and probes
\* no more after it (the k-th probe being the first success, exactly k probes are
\* made); it returns False only after exactly max_attempts probes none of which
\* succeeded; a poll that has returned has returned one of the two.
C1_FirstSuccessEndsPolling ==
    /\ wfp.first_ok # 0 =>
          /\ wfp.result = "True"
          /\ wfp.attempt = wfp.first_ok
          /\ pc \in {"wfp_done", "returned"}
    /\ wfp.result = "True" => wfp.first_ok \in 1..wfp.max_attempts
    /\ wfp.result = "False" =>
          /\ wfp.first_ok = 0
          /\ wfp.attempt = wfp.max_attempts
    /\ pc \in {"wfp_done", "returned"} => wfp.result \in {"True", "False"}

\* C1 witness: a direct call with max_attempts = 4 returned True at the third probe.
C1_Witness ==
    /\ pc = "returned"
    /\ wfp.result = "True"
    /\ wfp.max_attempts = 4
    /\ wfp.first_ok = 3
    /\ wfp.attempt = 3

\* C2: when the probe never succeeds, wait_for_postgres sleeps exactly
\* max_attempts - 1 times, and not after the final attempt.
C2_SleepsOnlyBetweenAttempts ==
    (wfp.result = "False" /\ wfp.max_attempts >= 1) =>
        /\ wfp.sleeps = wfp.max_attempts - 1
        /\ wfp.last # "sleep"

\* C3: no exception of a probe attempt leaves wait_for_postgres: every failure of
\* an attempt is a "not ready", and only exhaustion ends the poll without success.
C3_ProbeExceptionNeverPropagates == wfp.result # "raised"

\* C4: in a start / full-setup run, no call of Configured or of a later phase is
\* issued unless WaitingReady(1) succeeded; when its probes never succeed the run
\* ends in failure after exactly max_attempts probes; when one succeeds the run
\* goes on to Configured.
C4_ReadinessTimeoutStopsRun ==
    IsRun =>
        /\ "WaitingReady1" \notin completed => issued \cap After("WaitingReady1") = {}
        /\ calls.probe1 <= DefaultMaxAttempts
        /\ (wfp.caller = "start_postgres_container" /\ wfp.result = "False") =>
              calls.probe1 = DefaultMaxAttempts
        /\ errorMsg = "Failed to start PostgreSQL container" =>
              /\ calls.probe1 = DefaultMaxAttempts
              /\ "WaitingReady1" \notin completed
              /\ Ended
        /\ (pc = "exited" /\ "WaitingReady1" \notin completed) => exitStatus = "1"
        /\ ("WaitingReady1" \in completed /\ calls.psql_version = 0) => pc = "ce_version"

\* C4 witness: the run has ended with status 1 after 30 probes, none successful.
C4_Witness ==
    /\ IsRun
    /\ exitStatus = "1"
    /\ errorMsg = "Failed to start PostgreSQL container"
    /\ calls.probe1 = DefaultMaxAttempts
    /\ calls.psql_version = 0

\* C5: the readiness wait after the restart probes the container of the run.
C5_SecondWaitProbesRunContainer ==
    (IsRun /\ wfp.caller = "configure_extensions" /\ wfp.attempt > 0) =>
        wfp.container = containerName

\* The statements a start / full-setup run, or the test command, issues when none fails.
TestOrder ==
    [i \in 1..Len(TestSteps) |-> << "test_extensions", i >>]
    \o [i \in 1..Len(VectorSteps) |-> << "test_vectors_extension", i >>]

ExpectedOrder ==
    IF IsRun
      THEN [i \in 1..Len(CreateSteps) |-> << "create_extensions", i >>] \o TestOrder
      ELSE TestOrder

\* The "Failed: <description>" lines logged.
FailedLines == {l \in logged : l[1] = "Failed"}

\* C6: create_extensions and test_extensions issue their statements one at a time
\* in list order; the first statement that fails (non-zero exit of psql) is the
\* last one issued, its description is the one reported, the run ends in failure
\* and no later phase issues a call.
C6_FirstFailingStatementAborts ==
    /\ Len(stmts) <= Len(ExpectedOrder)
    /\ \A j \in 1..Len(stmts) : stmts[j] = ExpectedOrder[j]
    /\ Cardinality(FailedLines) <= 1
    /\ \A l \in FailedLines :
          /\ stmts # << >>
          /\ LET s == stmts[Len(stmts)] IN
                /\ l[2] = Steps(s[1])[s[2]]
                /\ s[1] = "create_extensions" =>
                      issued \cap After("Bootstrapped") = {}
          /\ Ended
          /\ exitStatus # "0"
          /\ CompletionLine \notin logged
    /\ (pc = "sql" /\ sql.idx > 1) => stmts[Len(stmts)] = << sql.fn, sql.idx - 1 >>

\* C6 witness: the third bootstrap statement failed; the run ended with status 1
\* after three statements.
C6_Witness ==
    /\ IsRun
    /\ << "Failed", "Loading vectors" >> \in logged
    /\ Len(stmts) = 3
    /\ exitStatus = "1"

\* C7: with the host port bound when start_postgres_container checks it, the run
\* fails with the port-conflict error and issues neither docker run nor a probe.
C7_PortConflictBeforeCreation ==
    (IsRun /\ portBound) =>
        /\ calls.docker_run = 0
        /\ calls.probe1 = 0
        /\ calls.probe2 = 0
        /\ "Provisioned" \notin completed
        /\ calls.port_check > 0 =>
              /\ errorMsg = "Port is already in use"
              /\ Ended
              /\ exitStatus # "0"
        /\ pc = "exited" => exitStatus = "1"

\* C7 witness: the run has ended on the port conflict.
C7_Witness ==
    /\ IsRun
    /\ portBound
    /\ calls.port_check = 1
    /\ exitStatus = "1"
    /\ errorMsg = "Port is already in use"

\* C8: a start / full-setup run issues no call of a phase before every earlier
\* phase has completed successfully.
C8_StrictPhaseOrder ==
    IsRun => \A p \in issued : Before(p) \subseteq completed

\* C9: a start / full-setup run reports success only if the bootstrap statements,
\* the verification query and every test statement were issued and succeeded.
C9_SuccessMeansEveryPhaseRan ==
    (IsRun /\ (CompletionLine \in logged \/ exitStatus = "0")) =>
        /\ {"Bootstrapped", "Verified", "Tested"} \subseteq completed
        /\ calls.verify_query = 1
        /\ calls.sql_test = Len(TestOrder)

\* Has the command done its work? (remove is best-effort: it has once it returns.)
WorkCompleted ==
    CASE cmd = "generate" -> bi.written
      [] cmd = "build" -> bi.written /\ bi.built = "ok"
      [] cmd = "remove" -> TRUE
      [] cmd = "verify" -> calls.verify_query = 1
      [] cmd = "test" -> calls.sql_test = Len(TestOrder)
      [] IsRun -> Phases \subseteq completed
      [] OTHER -> FALSE

\* C10: exit status 0 is produced only when the command's work completed.
C10_StatusZeroOnlyOnCompletion == exitStatus = "0" => WorkCompleted

\* C11: Teardown never fails the run: a run that has entered remove_container
\* does not end before remove_container has returned normally.
C11_TeardownNeverFailsRun ==
    (IsRun /\ Ended /\ calls.rc_inspect > 0) => "Teardown" \in completed

\* Positions of the blocks of a kind in the script generate_dockerfile returned.
Blocks(kind) == {i \in DOMAIN gen.script : gen.script[i].kind = kind}

Elems(s) == {s[i] : i \in DOMAIN s}

StrictlySorted(s) == \A i, j \in DOMAIN s : i < j => s[i] < s[j]

\* generate_dockerfile was called and returned a script.
Generated == gen.stage = "generate" /\ gen.result = "ok"

\* C12: whatever the build and runtime lists (order, duplicates within a list or
\* across the two), the emitted install command lists each distinct package
\* exactly once, in lexicographically sorted order.
C12_DependenciesDistinctAndSorted ==
    Generated =>
       LET wanted == Elems(AptGet(manifest, "build")) \cup Elems(AptGet(manifest, "runtime")) IN
       /\ wanted # {} => Blocks("apt_install") # {}
       /\ \A i \in Blocks("apt_install") :
             /\ StrictlySorted(gen.script[i].pkgs)
             /\ Elems(gen.script[i].pkgs) = wanted

\* Package extensions (positions) whose architecture_map lacks a key.
LacksArchitecture(i) ==
    /\ manifest.extensions[i].type = "package"
    /\ \E k \in ArchKeys : manifest.extensions[i].architecture_map[k] = Absent

\* generate_dockerfile was called on a manifest that has global_dependencies.apt
\* (so that what it raises, if anything, comes from the extensions).
GenerateCalled == gen.stage = "generate" /\ manifest.gd = "apt"

\* C13: when a package extension's architecture_map lacks the key of a target
\* architecture, generate_dockerfile fails with an error that names the extension
\* and the missing architecture, and returns no script.
C13_MissingArchitectureNamed ==
    (GenerateCalled /\ \E i \in DOMAIN manifest.extensions : LacksArchitecture(i)) =>
       /\ gen.result # "ok"
       /\ \E i \in DOMAIN manifest.extensions :
             /\ LacksArchitecture(i)
             /\ ExtName(i) \in gen.mentions
             /\ \E k \in ArchKeys :
                   /\ manifest.extensions[i].architecture_map[k] = Absent
                   /\ k \in gen.mentions

\* Extensions (positions) whose type is neither 'package' nor 'source', or whose
\* repository type its variant does not support.
UnknownVariant(i) ==
    LET e == manifest.extensions[i] IN
    \/ e.type \notin {"package", "source"}
    \/ e.type = "package" /\ e.repo_type # "github"
    \/ e.type = "source" /\ e.repo_type # "git"

\* C14: for an extension of unknown type or unsupported repository type,
\* generate_dockerfile fails with an error identifying that extension; it returns
\* no script in which that extension's block is empty.
C14_UnknownVariantFails ==
    (/\ GenerateCalled
     /\ \A i \in DOMAIN manifest.extensions : ~LacksArchitecture(i)
     /\ \E i \in DOMAIN manifest.extensions : UnknownVariant(i)) =>
       /\ gen.result # "ok"
       /\ \E i \in DOMAIN manifest.extensions :
             UnknownVariant(i) /\ ExtName(i) \in gen.mentions

\* Required fields (positions in the check order) the manifest does not have.
MissingFields == {i \in DOMAIN RequiredFields : RequiredFields[i] \notin manifest.keys}

\* The constructor has read the file and yaml.safe_load gave a mapping.
LoadedMapping ==
    /\ gen.stage # "none"
    /\ ~(gen.stage = "load" /\ gen.result \in {"OSError", "YAMLError", "TypeError"})

\* C15: a manifest (a mapping) that misses a required field fails validation
\* with an error naming the first missing field in the check order, and a
\* manifest with all four passes validation whatever else it holds.
C15_ValidationNamesFirstMissing ==
    LoadedMapping =>
       IF MissingFields # {}
         THEN /\ gen.stage = "load"
              /\ gen.result = "ValueError"
              /\ gen.mentions =
                    {RequiredFields[CHOOSE i \in MissingFields :
                                       \A j \in MissingFields : i <= j]}
              /\ pc = "raised"
         ELSE /\ gen.result # "ValueError"
              /\ gen.stage = "load" => (gen.result = "ok" /\ pc = "dg_generate")

\* C15 witness: two fields are missing, postgres_version before extensions in
\* the check order, and the error names postgres_version.
C15_Witness ==
    /\ gen.stage = "load"
    /\ gen.result = "ValueError"
    /\ manifest.keys = {"version", "base_image"}
    /\ gen.mentions = {"postgres_version"}

\* C16: for a package extension, the selector the emitted step uses under build
\* architecture T is the architecture_map entry for T, for T = arm64 and T = amd64.
C16_SelectorIsMapEntry ==
    Generated =>
       \A i \in DOMAIN manifest.extensions :
          LET e == manifest.extensions[i] IN
          (e.type = "package" /\ e.repo_type = "github") =>
             \E b \in Blocks("install") :
                /\ gen.script[b].ext = ExtName(i)
                /\ gen.script[b].body = "package"
                /\ \A T \in TargetArchs : Selector(gen.script[b], T) = e.architecture_map[T]

\* C16 witness: amd64 -> "linux-amd64", arm64 -> "linux-arm64", and the emitted
\* step selects "linux-amd64" in a build on amd64.
C16_Witness ==
    /\ Generated
    /\ \E i \in DOMAIN manifest.extensions, b \in Blocks("install") :
          /\ manifest.extensions[i].type = "package"
          /\ manifest.extensions[i].architecture_map = FullMap
          /\ gen.script[b].ext = ExtName(i)
          /\ Selector(gen.script[b], "amd64") = "linux-amd64"

\* C17: when the construction of the generator or generate_dockerfile fails, the
\* Dockerfile is not written and no container-runtime call (builder cleanup,
\* builder creation, build, or any call of a run) is issued: the command ends
\* there, with a non-zero status.
C17_FailureBeforeOutput ==
    (cmd # DirectGen /\ gen.result \notin {"none", "ok"}) =>
       /\ ~bi.written
       /\ ~bi.called
       /\ \A k \in CallKinds : calls[k] = 0
       /\ pc \in {"main_except", "exited"}
       /\ exitStatus # "0"

\* C17 witness: build ended with status 1 after generate_dockerfile raised.
C17_Witness ==
    /\ cmd = "build"
    /\ gen.stage = "generate"
    /\ gen.result = "KeyError"
    /\ pc = "exited"
    /\ exitStatus = "1"

\* C18: once the container of a run has been created, the run issues no
\* container-removal and no volume-removal call, whatever fails afterwards.
C18_NoRollback ==
    [][ "Provisioned" \in completed =>
           /\ calls'.rc_rm = calls.rc_rm
           /\ calls'.rc_volrm = calls.rc_volrm ]_vars

\* C18 witness: a run that removed an old container, created the new one and
\* then failed has ended.
C18_Witness ==
    /\ IsRun
    /\ "Provisioned" \in completed
    /\ calls.rc_rm = 1
    /\ pc = "exited"
    /\ exitStatus = "1"

\* Every extension is one the generator is meant to emit a step for.
WellFormed ==
    \A i \in DOMAIN manifest.extensions : ~LacksArchitecture(i) /\ ~UnknownVariant(i)

\* Position of a kind of block in the fixed order.
KindOrder(kind) ==
    CASE kind = "from" -> 1
      [] kind = "arg" -> 2
      [] kind = "apt_install" -> 3
      [] kind = "update_ca" -> 4
      [] kind = "install" -> 5
      [] kind = "cleanup" -> 6
      [] kind = "cmd" -> 7

\* C19: for every manifest that passes validation generate_dockerfile returns a
\* script whose blocks are in the fixed order (base image, architecture
\* argument, dependency install, certificate refresh if any, one block per
\* extension in the manifest's order, cleanup, default command), the cleanup
\* list being the fixed one.
C19_FixedBlockOrder ==
    (gen.stage = "generate" /\ WellFormed) =>
       /\ gen.result = "ok"
       /\ \A i, j \in DOMAIN gen.script :
             i < j => /\ KindOrder(gen.script[i].kind) <= KindOrder(gen.script[j].kind)
                      /\ gen.script[i].kind = gen.script[j].kind =>
                            gen.script[i].kind = "install"
       /\ \A k \in {"from", "arg", "cleanup", "cmd"} : Blocks(k) # {}
       /\ LET first == CHOOSE b \in Blocks("cleanup") : TRUE
              n == Len(manifest.extensions) IN
          /\ Cardinality(Blocks("install")) = n
          /\ \A i \in 1..n : gen.script[first - n - 1 + i].ext = ExtName(i)
          /\ gen.script[first].pkgs = CleanupPackages

\* The runtime dependency set of the manifest.
RuntimeDeps ==
    IF manifest.gd = "apt" THEN Elems(AptGet(manifest, "runtime")) ELSE {}

\* C20: for every manifest that passes validation, the certificate-refresh step
\* is emitted iff ca-certificates is in the runtime dependency set; a manifest
\* without global dependencies (or without a runtime list) yields a complete
\* script without the step.
C20_CertificateStepIffRuntimeHasCa ==
    (gen.stage = "generate" /\ WellFormed) =>
       /\ gen.result = "ok"
       /\ Blocks("update_ca") # {} <=> CaCertificates \in RuntimeDeps

\* C21: the step emitted for a source extension uses the extension's own
\* build.directory as the stale checkout removed, as the clone target and as
\* the directory the recipe runs in; the clone carries --depth / --branch exactly
\* when the manifest declares them; the recipe is the one the directory names.
C21_SourceStepUsesOwnDirectory ==
    Generated =>
       \A i \in DOMAIN manifest.extensions, b \in Blocks("install") :
          LET e == manifest.extensions[i] IN
          (/\ e.type = "source"
           /\ gen.script[b].ext = ExtName(i)
           /\ gen.script[b].body # "none") =>
             /\ gen.script[b].dir = e.directory
             /\ gen.script[b].cd = e.directory
             /\ gen.script[b].depth = e.depth
             /\ gen.script[b].branch = e.branch
             /\ Contains(gen.script[b].body, e.directory)

\* Runs that have appended both configuration lines.
ConfiguredRuns == {p \in Procs : runs[p].configured}

C23_RunsRace ==
    \A p \in Procs :
       runs[p].pc = "failed" =>
          /\ runs[p].overlapped
          /\ runs[p].provisioned <=>
                runs[p].failed_at \notin {"port_check", "docker_run"}

\* C23 witness: a run that created its container has failed in a later phase,
\* the container it created being gone or replaced.
C23_Witness ==
    \E p \in Procs :
       /\ runs[p].pc = "failed"
       /\ runs[p].provisioned
       /\ runs[p].failed_at \in {"wait1", "psql_version", "symlink", "append_spl",
                                "append_sp", "restart", "wait2", "sql_create"}
       /\ env.container # p

\* C24: remove_container issues a volume removal only when remove_volume was
\* asked for, the container existed when the call began, its mount named a
\* volume and that volume exists; the Teardown of a start / full-setup run
\* never issues one, and does not even look for the volume.
C24_VolumeRemovedOnlyOnRequest ==
    /\ [][ calls'.rc_volrm # calls.rc_volrm =>
              /\ cmd = "remove"
              /\ removeVolume
              /\ rc.remove_volume
              /\ rc.container_exists
              /\ rc.volume_name # "none"
              /\ rc.volume_exists ]_vars
    /\ [](IsRun => /\ calls.rc_volrm = 0
                   /\ calls.rc_getvol = 0
                   /\ calls.rc_volexists = 0)

\* C24 witness: the remove command has issued the volume removal.
C24_Witness ==
    /\ cmd = "remove"
    /\ calls.rc_volrm = 1
    /\ rc.volume_exists

\* build_image has created the builder and is past its finally block.
BuildLeft ==
    /\ bi.created
    /\ pc \notin {"bi_build", "cb_ls", "cb_rmb", "cb_ps", "cb_rmc", "cb_return"}

\* C25: once the builder was created, cleanup_buildx has run (a second time,
\* after the one that precedes the creation) before build_image returns or
\* raises; a failed build is then reported as the error, and a build that
\* succeeded returns normally, whatever the cleanup's commands did.
C25_CleanupAlwaysAfterBuild ==
    BuildLeft =>
       /\ bi.cleanups = 2
       /\ bi.built # "none"
       /\ bi.built = "nonzero" =>
             /\ errorMsg = "CalledProcessError"
             /\ pc \in {"main_except", "exited"}
             /\ exitStatus # "0"
       /\ (bi.built = "ok" /\ cmd = "build") =>
             /\ errorMsg = "none"
             /\ pc \in {"main_return", "exited"}
             /\ exitStatus # "1"
       /\ (bi.built = "ok" /\ cmd = "full-setup" /\ exitStatus = "1") =>
             calls.rc_inspect > 0

\* C25 witness: the build failed, a command of the cleanup in the finally block
\* raised as well, and the command ended reporting the build's failure.
C25_Witness ==
    /\ cmd = "build"
    /\ bi.built = "nonzero"
    /\ bi.cleanup_raised
    /\ bi.cleanups = 2
    /\ pc = "exited"
    /\ errorMsg = "CalledProcessError"

====
